---- MODULE Spec2Model ----
(***************************************************************************)
(* Model of filelock.FileLock (src/filelock/filelock.py).                  *)
(*                                                                         *)
(* Two FileLock instances are built on the same (folder, filename).  They  *)
(* live either in one process (one descriptor table, descriptor numbers    *)
(* are reused) or in two.  Every public method (acquire, release,          *)
(* __enter__, __exit__ through the with statement) may be called on an     *)
(* instance whenever no call is in progress on it; the statements of a     *)
(* call are separate steps, so calls on different instances interleave.    *)
(* Time is wall-clock time: it may pass between any two steps.  The lock   *)
(* folder is in order, missing or not writable, and stays as it is.        *)
(*                                                                         *)
(* Spec starts with both instances built.  SpecCtor starts before any is   *)
(* built: the constructor arguments are drawn from FolderArgs and NameArgs *)
(* and FileLock.__init__ is a step of its own (Construct).                 *)
(***************************************************************************)
EXTENDS Integers, FiniteSets, Sequences, TLC

\* ---- bounds --------------------------------------------------------------
MaxTime     == 2   \* time.time() - start_time is followed up to MaxTime
MaxTimeout  == 2   \* timeout_sec is drawn from 0..MaxTimeout
MaxDelay    == 1   \* retry_delay_sec is drawn from 1..MaxDelay
MaxAttempts == 3   \* os.open attempts of one acquire() call
MaxDepth    == 2   \* nesting of with-blocks on one instance

Inst  == {"A", "B"}
Procs == {"P1", "P2"}
Fds   == {3, 4}              \* descriptor numbers a process hands out
None  == "None"              \* Python's None; also "no lock file on disk"
NoFd  == 0                   \* self.fd = None (descriptor numbers are integers)

OpNames  == {"none", "init", "acquire", "release", "enter", "exit"}
Outcomes == {"none", "ok", "FileLockException", "OSError", "TypeError"}
PcNames  == {"unbuilt", "idle", "a_open", "a_locked", "a_except", "a_sleep",
             "r_close", "r_unlink", "r_flag", "done"}
InAcquire == {"a_open", "a_locked", "a_except", "a_sleep"}

\* ---- paths ---------------------------------------------------------------
Sep     == "/"       \* os.sep
DotLock == ".lock"

\* the directories of the file system: /t exists and is writable, /r and the
\* root exist and are not writable, /m does not exist
OkDir      == "/t"
MissingDir == "/m"
DeniedDir  == "/r"
RootDir    == "/"

\* the arguments FileLock is built with
FolderArgs == {OkDir, MissingDir, DeniedDir, DeniedDir \o Sep}
NameArgs   == {"j", "/j"}

\* the k-th character of a string
Char(str, k) == SubSeq(str, k, k)

\* "{}.lock".format(filename)
Format(filename) == filename \o DotLock

\* os.path.join(a, b): b alone when b is absolute; no separator is added after
\* an empty a or an a that ends with one
Join(a, b) ==
    IF b # "" /\ Char(b, 1) = Sep THEN b
    ELSE IF a = "" \/ Char(a, Len(a)) = Sep THEN a \o b
    ELSE a \o Sep \o b

\* line 22: os.path.join(folder, "{}.lock".format(filename))
LockPath(a) == Join(a.folder, Format(a.filename))

\* line 45: "Timeout occurred for lockfile '%s'" % self.lockfile
TimeoutMessage(path) == "Timeout occurred for lockfile '" \o path \o "'"

\* position of the last separator of a path, 0 when it has none
LastSep(path) ==
    IF \E k \in 1..Len(path) : Char(path, k) = Sep
    THEN CHOOSE k \in 1..Len(path) :
            /\ Char(path, k) = Sep
            /\ \A m \in (k + 1)..Len(path) : Char(path, m) # Sep
    ELSE 0

\* the directory os.open creates the file of a path in
Dirname(path) ==
    IF LastSep(path) = 1 THEN RootDir ELSE SubSeq(path, 1, LastSep(path) - 1)

\* what os.open finds of that directory
DirState(dir) ==
    IF dir = OkDir THEN "ok"
    ELSE IF dir = MissingDir THEN "missing"
    ELSE "denied"

\* the folder argument used for a lock folder in a given state
DirArg(state) ==
    IF state = "ok" THEN OkDir
    ELSE IF state = "missing" THEN MissingDir
    ELSE DeniedDir \o Sep

VARIABLES
    folder,          \* the lock folder: "ok", "missing" or "denied" (not writable)
    disk,            \* None, or the instance whose os.open created the lock file
    open,            \* open[p]: descriptors open in process p
    proc,            \* proc[i]: the process instance i lives in
    timeout_sec,     \* self.timeout_sec
    retry_delay_sec, \* self.retry_delay_sec
    fd,              \* self.fd
    is_locked,       \* self.is_locked
    pc,              \* position of the call in progress on the instance
    op,              \* the public method being called on the instance
    result,          \* how the call ended, while pc = "done"
    held0,           \* is_locked when the call started
    elapsed,         \* time.time() - start_time of the acquire in progress
    sleep_left,      \* what is left of the time.sleep in progress
    errno,           \* e.errno of the OSError caught in acquire
    attempts,        \* os.open calls made by the acquire in progress
    slept,           \* time.sleep calls completed by that acquire
    depth,           \* with-blocks of the instance control is inside
    exc,             \* the with-block being left was left by an error
    blocked,         \* a lock file created by another instance has been on
                     \* disk ever since the acquire in progress began
    args,            \* the arguments the instances are built with
    lockfile,        \* self.lockfile
    message          \* the message of the FileLockException raised

vars == <<folder, disk, open, proc, timeout_sec, retry_delay_sec, fd,
          is_locked, pc, op, result, held0, elapsed, sleep_left, errno,
          attempts, slept, depth, exc, blocked, args, lockfile, message>>

cfgvars == <<folder, proc, timeout_sec, retry_delay_sec, args, lockfile>>
envvars == <<disk, open>>
\* the variables of a call, other than its position
callvars == <<op, result, held0, elapsed, sleep_left, errno, attempts, slept,
              exc, blocked, message>>

\* ---- FileLock.__init__ ---------------------------------------------------
Init ==
    /\ folder \in {"ok", "missing", "denied"}
    /\ disk = None
    /\ open = [p \in Procs |-> {}]
    /\ proc \in {[i \in Inst |-> "P1"],
                 [i \in Inst |-> IF i = "A" THEN "P1" ELSE "P2"]}
    /\ \E t \in 0..MaxTimeout : timeout_sec = [i \in Inst |-> t]
    /\ \E d \in 1..MaxDelay : retry_delay_sec = [i \in Inst |-> d]
    /\ fd = [i \in Inst |-> NoFd]
    /\ is_locked = [i \in Inst |-> FALSE]
    /\ pc = [i \in Inst |-> "idle"]
    /\ op = [i \in Inst |-> "none"]
    /\ result = [i \in Inst |-> "none"]
    /\ held0 = [i \in Inst |-> FALSE]
    /\ elapsed = [i \in Inst |-> 0]
    /\ sleep_left = [i \in Inst |-> 0]
    /\ errno = [i \in Inst |-> None]
    /\ attempts = [i \in Inst |-> 0]
    /\ slept = [i \in Inst |-> 0]
    /\ depth = [i \in Inst |-> 0]
    /\ exc = [i \in Inst |-> FALSE]
    /\ blocked = [i \in Inst |-> FALSE]
    /\ args = [folder |-> DirArg(folder), filename |-> "j",
               timeout_sec |-> timeout_sec["A"],
               retry_delay_sec |-> retry_delay_sec["A"]]
    /\ lockfile = [i \in Inst |-> LockPath(args)]
    /\ message = [i \in Inst |-> None]

\* ---- helpers -------------------------------------------------------------
\* os.open hands out the lowest descriptor number free in the process
LowestFree(p) == CHOOSE n \in Fds \ open[p] : \A m \in Fds \ open[p] : n <= m

\* errno of os.open(lockfile, O_CREAT | O_RDWR | O_EXCL), None on success
OpenErrno ==
    IF folder = "missing" THEN "ENOENT"
    ELSE IF disk # None THEN "EEXIST"
    ELSE IF folder = "denied" THEN "EACCES"
    ELSE None

\* mutant of RetryErrnos: every OSError is taken for contention
RetryErrnosAny == {"EEXIST", "EACCES", "ENOENT"}

\* mutant of RetryErrnos: only "file exists" is taken for contention
RetryErrnosExistsOnly == {"EEXIST"}

\* the errnos acquire treats as "the lock is in use"
RetryErrnos == {"EEXIST", "EACCES"}

\* A public method is called on i
Begin(i, name) ==
    /\ pc[i] = "idle"
    /\ op' = [op EXCEPT ![i] = name]
    /\ held0' = [held0 EXCEPT ![i] = is_locked[i]]

\* The call on i ends with outcome r (a return, or the exception raised)
Finish(i, r) ==
    /\ pc' = [pc EXCEPT ![i] = "done"]
    /\ result' = [result EXCEPT ![i] = r]

\* ---- FileLock.acquire ----------------------------------------------------
\* line 34: start_time = time.time()
AcquireStart(i) ==
    /\ pc' = [pc EXCEPT ![i] = "a_open"]
    /\ elapsed' = [elapsed EXCEPT ![i] = 0]
    /\ blocked' = [blocked EXCEPT ![i] = disk \in Inst \ {i}]

CallAcquire(i) ==
    /\ Begin(i, "acquire")
    /\ AcquireStart(i)
    /\ UNCHANGED <<envvars, cfgvars, message, fd, is_locked, result,
                   sleep_left, errno, attempts, slept, depth, exc>>

\* line 38: self.fd = os.open(...)
AcquireOpen(i) ==
    /\ pc[i] = "a_open"
    /\ attempts[i] < MaxAttempts
    /\ attempts' = [attempts EXCEPT ![i] = @ + 1]
    /\ IF OpenErrno = None
       THEN /\ Fds \ open[proc[i]] # {}
            /\ fd' = [fd EXCEPT ![i] = LowestFree(proc[i])]
            /\ open' = [open EXCEPT ![proc[i]] = @ \cup {LowestFree(proc[i])}]
            /\ disk' = i
            /\ pc' = [pc EXCEPT ![i] = "a_locked"]
            /\ UNCHANGED errno
       ELSE /\ errno' = [errno EXCEPT ![i] = OpenErrno]
            /\ pc' = [pc EXCEPT ![i] = "a_except"]
            /\ UNCHANGED <<fd, open, disk>>
    /\ UNCHANGED <<cfgvars, message, is_locked, op, result, held0, elapsed,
                   sleep_left, slept, depth, exc, blocked>>

\* lines 39-40: self.is_locked = True; break
AcquireLocked(i) ==
    /\ pc[i] = "a_locked"
    /\ is_locked' = [is_locked EXCEPT ![i] = TRUE]
    /\ Finish(i, "ok")
    /\ UNCHANGED <<envvars, cfgvars, message, fd, op, held0, elapsed,
                   sleep_left, errno, attempts, slept, depth, exc, blocked>>

\* lines 42-43: if e.errno not in (EEXIST, EACCES): raise
AcquireRaise(i) ==
    /\ pc[i] = "a_except"
    /\ errno[i] \notin RetryErrnos
    /\ Finish(i, "OSError")
    /\ UNCHANGED <<envvars, cfgvars, message, fd, is_locked, op, held0,
                   elapsed, sleep_left, errno, attempts, slept, depth, exc,
                   blocked>>

\* mutant of TimedOut: > instead of >=
TimedOutStrict(i) == elapsed[i] > timeout_sec[i]

\* line 44: (time.time() - start_time) >= self.timeout_sec
TimedOut(i) == elapsed[i] >= timeout_sec[i]

\* mutant of AcquireTimeout: the lock file is removed as stale on a timeout
AcquireTimeoutBreaksLock(i) ==
    /\ pc[i] = "a_except"
    /\ errno[i] \in RetryErrnos
    /\ TimedOut(i)
    /\ Finish(i, "FileLockException")
    /\ disk' = None
    /\ message' = [message EXCEPT ![i] = TimeoutMessage(lockfile[i])]
    /\ UNCHANGED <<open, cfgvars, fd, is_locked, op, held0, elapsed,
                   sleep_left, errno, attempts, slept, depth, exc, blocked>>

\* mutant of AcquireTimeout: the message does not name the lock file
AcquireTimeoutAnonymous(i) ==
    /\ pc[i] = "a_except"
    /\ errno[i] \in RetryErrnos
    /\ TimedOut(i)
    /\ Finish(i, "FileLockException")
    /\ message' = [message EXCEPT ![i] = "Timeout occurred"]
    /\ UNCHANGED <<envvars, cfgvars, fd, is_locked, op, held0, elapsed,
                   sleep_left, errno, attempts, slept, depth, exc, blocked>>

\* lines 44-45: raise FileLockException
AcquireTimeout(i) ==
    /\ pc[i] = "a_except"
    /\ errno[i] \in RetryErrnos
    /\ TimedOut(i)
    /\ Finish(i, "FileLockException")
    /\ message' = [message EXCEPT ![i] = TimeoutMessage(lockfile[i])]
    /\ UNCHANGED <<envvars, cfgvars, fd, is_locked, op, held0, elapsed,
                   sleep_left, errno, attempts, slept, depth, exc, blocked>>

\* mutant of AcquireSleep: start_time is taken again before every sleep
AcquireSleepRestartsClock(i) ==
    /\ pc[i] = "a_except"
    /\ errno[i] \in RetryErrnos
    /\ ~TimedOut(i)
    /\ pc' = [pc EXCEPT ![i] = "a_sleep"]
    /\ sleep_left' = [sleep_left EXCEPT ![i] = retry_delay_sec[i]]
    /\ errno' = [errno EXCEPT ![i] = None]
    /\ elapsed' = [elapsed EXCEPT ![i] = 0]
    /\ UNCHANGED <<envvars, cfgvars, message, fd, is_locked, op, result, held0,
                   attempts, slept, depth, exc, blocked>>

\* lines 47-48: time.sleep(self.retry_delay_sec) is entered
AcquireSleep(i) ==
    /\ pc[i] = "a_except"
    /\ errno[i] \in RetryErrnos
    /\ ~TimedOut(i)
    /\ pc' = [pc EXCEPT ![i] = "a_sleep"]
    /\ sleep_left' = [sleep_left EXCEPT ![i] = retry_delay_sec[i]]
    /\ errno' = [errno EXCEPT ![i] = None]
    /\ UNCHANGED <<envvars, cfgvars, message, fd, is_locked, op, result, held0,
                   elapsed, attempts, slept, depth, exc, blocked>>

\* line 48: time.sleep returns, not before retry_delay_sec has passed
AcquireWake(i) ==
    /\ pc[i] = "a_sleep"
    /\ sleep_left[i] = 0
    /\ pc' = [pc EXCEPT ![i] = "a_open"]
    /\ slept' = [slept EXCEPT ![i] = @ + 1]
    /\ UNCHANGED <<envvars, cfgvars, message, fd, is_locked, op, result, held0,
                   elapsed, sleep_left, errno, attempts, depth, exc, blocked>>

\* ---- FileLock.release ----------------------------------------------------
CallRelease(i) ==
    /\ Begin(i, "release")
    /\ pc' = [pc EXCEPT ![i] = "r_close"]
    /\ UNCHANGED <<envvars, cfgvars, message, fd, is_locked, result, elapsed,
                   sleep_left, errno, attempts, slept, depth, exc, blocked>>

\* outcome of os.close(self.fd): TypeError for None, OSError (EBADF) for a
\* number that is not open in the process, "ok" otherwise
CloseOutcome(i) ==
    IF fd[i] = NoFd THEN "TypeError"
    ELSE IF fd[i] \notin open[proc[i]] THEN "OSError"
    ELSE "ok"

\* line 54: os.close(self.fd)
ReleaseClose(i) ==
    /\ pc[i] = "r_close"
    /\ IF CloseOutcome(i) = "ok"
       THEN /\ open' = [open EXCEPT ![proc[i]] = @ \ {fd[i]}]
            /\ pc' = [pc EXCEPT ![i] = "r_unlink"]
            /\ UNCHANGED result
       ELSE /\ Finish(i, CloseOutcome(i))
            /\ UNCHANGED open
    /\ UNCHANGED <<disk, cfgvars, message, fd, is_locked, op, held0, elapsed,
                   sleep_left, errno, attempts, slept, depth, exc, blocked>>

\* mutant of ReleaseUnlink: the lock file is emptied, not deleted
ReleaseUnlinkKeepsFile(i) ==
    /\ pc[i] = "r_unlink"
    /\ pc' = [pc EXCEPT ![i] = "r_flag"]
    /\ UNCHANGED <<envvars, cfgvars, fd, is_locked, callvars, depth>>

\* line 55: os.unlink(self.lockfile); OSError (ENOENT) when there is no file
ReleaseUnlink(i) ==
    /\ pc[i] = "r_unlink"
    /\ IF disk # None
       THEN /\ disk' = None
            /\ blocked' = [k \in Inst |-> FALSE]
            /\ pc' = [pc EXCEPT ![i] = "r_flag"]
            /\ UNCHANGED result
       ELSE /\ Finish(i, "OSError")
            /\ UNCHANGED <<disk, blocked>>
    /\ UNCHANGED <<open, cfgvars, message, fd, is_locked, op, held0, elapsed,
                   sleep_left, errno, attempts, slept, depth, exc>>

\* mutant of ReleaseFlag: is_locked is not cleared
ReleaseFlagKeepsHeld(i) ==
    /\ pc[i] = "r_flag"
    /\ Finish(i, "ok")
    /\ UNCHANGED <<envvars, cfgvars, message, fd, is_locked, op, held0,
                   elapsed, sleep_left, errno, attempts, slept, depth, exc,
                   blocked>>

\* line 56: self.is_locked = False
ReleaseFlag(i) ==
    /\ pc[i] = "r_flag"
    /\ is_locked' = [is_locked EXCEPT ![i] = FALSE]
    /\ Finish(i, "ok")
    /\ UNCHANGED <<envvars, cfgvars, message, fd, op, held0, elapsed,
                   sleep_left, errno, attempts, slept, depth, exc, blocked>>

\* ---- FileLock.__enter__ --------------------------------------------------
\* mutant of Enter: acquire() is called whether or not the lock is held
EnterAlwaysAcquires(i) ==
    /\ Begin(i, "enter")
    /\ depth[i] < MaxDepth
    /\ AcquireStart(i)
    /\ UNCHANGED <<envvars, cfgvars, message, fd, is_locked, result,
                   sleep_left, errno, attempts, slept, depth, exc>>

\* lines 62-66, called by a with statement
Enter(i) ==
    /\ Begin(i, "enter")
    /\ depth[i] < MaxDepth
    /\ IF ~is_locked[i]
       THEN /\ AcquireStart(i)
            /\ UNCHANGED result
       ELSE /\ Finish(i, "ok")
            /\ UNCHANGED <<elapsed, blocked>>
    /\ UNCHANGED <<envvars, cfgvars, message, fd, is_locked, sleep_left, errno,
                   attempts, slept, depth, exc>>

\* ---- FileLock.__exit__ ---------------------------------------------------
\* lines 68-71, called when a with-block is left, by its end or by an error
Exit(i) ==
    /\ Begin(i, "exit")
    /\ depth[i] > 0
    /\ \E e \in BOOLEAN : exc' = [exc EXCEPT ![i] = e]
    /\ IF is_locked[i]
       THEN /\ pc' = [pc EXCEPT ![i] = "r_close"]
            /\ UNCHANGED result
       ELSE Finish(i, "ok")
    /\ UNCHANGED <<envvars, cfgvars, message, fd, is_locked, elapsed,
                   sleep_left, errno, attempts, slept, depth, blocked>>

\* ---- the caller ----------------------------------------------------------
\* Control (or the exception) is back in the caller: the variables of the call
\* are gone.  A with-block is entered when __enter__ returns normally and is
\* left when __exit__ ends, normally or not.
Return(i) ==
    /\ pc[i] = "done"
    /\ pc' = [pc EXCEPT ![i] = "idle"]
    /\ depth' = [depth EXCEPT ![i] =
                    IF op[i] = "enter" /\ result[i] = "ok" THEN @ + 1
                    ELSE IF op[i] = "exit" THEN @ - 1
                    ELSE @]
    /\ op' = [op EXCEPT ![i] = "none"]
    /\ result' = [result EXCEPT ![i] = "none"]
    /\ held0' = [held0 EXCEPT ![i] = FALSE]
    /\ elapsed' = [elapsed EXCEPT ![i] = 0]
    /\ sleep_left' = [sleep_left EXCEPT ![i] = 0]
    /\ errno' = [errno EXCEPT ![i] = None]
    /\ attempts' = [attempts EXCEPT ![i] = 0]
    /\ slept' = [slept EXCEPT ![i] = 0]
    /\ exc' = [exc EXCEPT ![i] = FALSE]
    /\ blocked' = [blocked EXCEPT ![i] = FALSE]
    /\ message' = [message EXCEPT ![i] = None]
    /\ UNCHANGED <<envvars, cfgvars, fd, is_locked>>

\* ---- environment ---------------------------------------------------------
\* One unit of wall-clock time passes, for every instance.  The time an
\* acquire() has been running is followed up to MaxTime: elapsed = MaxTime
\* stands for "MaxTime or more".
Tick ==
    /\ \E i \in Inst : pc[i] \in InAcquire
    /\ elapsed' = [i \in Inst |->
                      IF pc[i] \in InAcquire /\ elapsed[i] < MaxTime
                      THEN elapsed[i] + 1
                      ELSE elapsed[i]]
    /\ sleep_left' = [i \in Inst |->
                         IF sleep_left[i] > 0 THEN sleep_left[i] - 1 ELSE 0]
    /\ UNCHANGED <<envvars, cfgvars, message, fd, is_locked, pc, op, result,
                   held0, errno, attempts, slept, depth, exc, blocked>>

Next ==
    \/ \E i \in Inst : CallAcquire(i)
    \/ \E i \in Inst : AcquireOpen(i)
    \/ \E i \in Inst : AcquireLocked(i)
    \/ \E i \in Inst : AcquireRaise(i)
    \/ \E i \in Inst : AcquireTimeout(i)
    \/ \E i \in Inst : AcquireSleep(i)
    \/ \E i \in Inst : AcquireWake(i)
    \/ \E i \in Inst : CallRelease(i)
    \/ \E i \in Inst : ReleaseClose(i)
    \/ \E i \in Inst : ReleaseUnlink(i)
    \/ \E i \in Inst : ReleaseFlag(i)
    \/ \E i \in Inst : Enter(i)
    \/ \E i \in Inst : Exit(i)
    \/ \E i \in Inst : Return(i)
    \/ Tick

Spec == Init /\ [][Next]_vars

\* ---- construction as a step ----------------------------------------------
\* No instance exists yet; the arguments they will be built with are drawn.
\* The lock folder is the directory the lock path lies in.
InitCtor ==
    /\ \E f \in FolderArgs, n \in NameArgs, t \in 0..MaxTimeout, d \in 1..MaxDelay :
          args = [folder |-> f, filename |-> n,
                  timeout_sec |-> t, retry_delay_sec |-> d]
    /\ folder = DirState(Dirname(LockPath(args)))
    /\ disk = None
    /\ open = [p \in Procs |-> {}]
    /\ proc \in {[i \in Inst |-> "P1"],
                 [i \in Inst |-> IF i = "A" THEN "P1" ELSE "P2"]}
    /\ timeout_sec = [i \in Inst |-> None]
    /\ retry_delay_sec = [i \in Inst |-> None]
    /\ lockfile = [i \in Inst |-> None]
    /\ fd = [i \in Inst |-> NoFd]
    /\ is_locked = [i \in Inst |-> FALSE]
    /\ pc = [i \in Inst |-> "unbuilt"]
    /\ op = [i \in Inst |-> "none"]
    /\ result = [i \in Inst |-> "none"]
    /\ held0 = [i \in Inst |-> FALSE]
    /\ elapsed = [i \in Inst |-> 0]
    /\ sleep_left = [i \in Inst |-> 0]
    /\ errno = [i \in Inst |-> None]
    /\ attempts = [i \in Inst |-> 0]
    /\ slept = [i \in Inst |-> 0]
    /\ depth = [i \in Inst |-> 0]
    /\ exc = [i \in Inst |-> FALSE]
    /\ blocked = [i \in Inst |-> FALSE]
    /\ message = [i \in Inst |-> None]

\* mutant of Construct: a lock file found at construction is removed as stale
ConstructClearsStaleLock(i) ==
    /\ pc[i] = "unbuilt"
    /\ lockfile' = [lockfile EXCEPT ![i] = LockPath(args)]
    /\ fd' = [fd EXCEPT ![i] = NoFd]
    /\ is_locked' = [is_locked EXCEPT ![i] = FALSE]
    /\ timeout_sec' = [timeout_sec EXCEPT ![i] = args.timeout_sec]
    /\ retry_delay_sec' = [retry_delay_sec EXCEPT ![i] = args.retry_delay_sec]
    /\ op' = [op EXCEPT ![i] = "init"]
    /\ Finish(i, "ok")
    /\ disk' = None
    /\ UNCHANGED <<open, folder, proc, args, held0, elapsed, sleep_left,
                   errno, attempts, slept, depth, exc, blocked, message>>

\* lines 21-26: FileLock(folder, filename, timeout_sec, retry_delay_sec)
Construct(i) ==
    /\ pc[i] = "unbuilt"
    /\ lockfile' = [lockfile EXCEPT ![i] = LockPath(args)]
    /\ fd' = [fd EXCEPT ![i] = NoFd]
    /\ is_locked' = [is_locked EXCEPT ![i] = FALSE]
    /\ timeout_sec' = [timeout_sec EXCEPT ![i] = args.timeout_sec]
    /\ retry_delay_sec' = [retry_delay_sec EXCEPT ![i] = args.retry_delay_sec]
    /\ op' = [op EXCEPT ![i] = "init"]
    /\ Finish(i, "ok")
    /\ UNCHANGED <<envvars, folder, proc, args, held0, elapsed, sleep_left,
                   errno, attempts, slept, depth, exc, blocked, message>>

NextCtor ==
    \/ \E i \in Inst : Construct(i)
    \/ Next

SpecCtor == InitCtor /\ [][NextCtor]_vars

TypeOK ==
    /\ folder \in {"ok", "missing", "denied"}
    /\ disk \in Inst \cup {None}
    /\ open \in [Procs -> SUBSET Fds]
    /\ fd \in [Inst -> Fds \cup {NoFd}]
    /\ is_locked \in [Inst -> BOOLEAN]
    /\ pc \in [Inst -> PcNames]
    /\ op \in [Inst -> OpNames]
    /\ result \in [Inst -> Outcomes]
    /\ elapsed \in [Inst -> 0..MaxTime]
    /\ sleep_left \in [Inst -> 0..MaxDelay]
    /\ depth \in [Inst -> 0..MaxDepth]

\* ==== properties ==========================================================
Other(i) == Inst \ {i}
\* the errnos of "the lock is in use", as the specification lists them
Contention == {"EEXIST", "EACCES"}
\* i has acquired the lock and its release has not yet deleted the lock file
Holds(i) == is_locked[i] /\ pc[i] # "r_flag"
\* i does not stand in the way of a creation: it never acquired, or its
\* release has deleted the lock file
Released(i) == pc[i] = "r_flag" \/ (~is_locked[i] /\ pc[i] # "a_locked")
\* the acquire() on i has been running for n or more (elapsed = MaxTime
\* stands for MaxTime or more)
ElapsedAtLeast(i, n) == elapsed[i] >= n \/ elapsed[i] = MaxTime
\* a call of acquire (directly or through __enter__) ended on i
AcquireEnded(i) == pc[i] = "done" /\ op[i] \in {"acquire", "enter"} /\ ~(op[i] = "enter" /\ held0[i])

\* C1: mutual exclusion: under any interleaving of acquire() and release()
\* calls on two instances of one path, at most one of them has acquired the
\* lock and not yet released it.
C1_MutualExclusion ==
    \A i, j \in Inst : Holds(i) /\ Holds(j) => i = j

\* C2: timeout bound: an acquire() during which another holder keeps the
\* lock file never returns successfully and fails with the timeout error at
\* an elapsed time e with T <= e < T + d, and with T = 0 after its first
\* attempt, without sleeping.
C2_TimeoutBound ==
    \A i \in Inst :
        (AcquireEnded(i) /\ blocked[i])
        => /\ result[i] = "FileLockException"
           /\ timeout_sec[i] <= elapsed[i]
           /\ elapsed[i] < timeout_sec[i] + retry_delay_sec[i]
           /\ timeout_sec[i] = 0 => attempts[i] = 1 /\ slept[i] = 0

\* C2 as amended: an acquire() during which another holder keeps the lock
\* file never returns successfully and fails with the timeout error at an
\* elapsed time e >= T, having slept s = (number of sleeps) * d in total with
\* s <= e and s < T + d; with T = 0 it fails after its first attempt, without
\* sleeping.  Every acquire() that times out is within these bounds.
C2_TimeoutBoundSlept ==
    \A i \in Inst :
        /\ (AcquireEnded(i) /\ blocked[i]) => result[i] = "FileLockException"
        /\ (pc[i] \in InAcquire /\ blocked[i]) => pc[i] # "a_locked" /\ disk \in Other(i)
        /\ (AcquireEnded(i) /\ result[i] = "FileLockException")
           => /\ timeout_sec[i] <= elapsed[i]
              /\ slept[i] * retry_delay_sec[i] < timeout_sec[i] + retry_delay_sec[i]
              /\ ElapsedAtLeast(i, slept[i] * retry_delay_sec[i])
              /\ attempts[i] = slept[i] + 1
              /\ errno[i] \in Contention
              /\ ~is_locked[i] \/ held0[i]
              /\ timeout_sec[i] = 0 => attempts[i] = 1 /\ slept[i] = 0

\* a timeout after polling, while the other instance holds the lock throughout
C2_Witness ==
    \E i \in Inst :
        /\ AcquireEnded(i) /\ result[i] = "FileLockException"
        /\ slept[i] >= 1 /\ timeout_sec[i] >= 1 /\ blocked[i]
        /\ \E j \in Other(i) : pc[j] = "idle" /\ is_locked[j] /\ disk = j

\* C4: re-entrant acquire: acquire() on an instance that holds the lock makes
\* no creation attempt, does not block and returns normally, still held.
C4_ReentrantAcquire ==
    \A i \in Inst :
        (op[i] = "acquire" /\ held0[i])
        => /\ attempts[i] = 0
           /\ pc[i] # "a_sleep"
           /\ pc[i] = "done" => result[i] = "ok" /\ is_locked[i]

\* C5: idempotent release: release() on an instance that does not hold the
\* lock raises nothing and leaves held = false.
C5_IdempotentRelease ==
    \A i \in Inst :
        (op[i] = "release" /\ ~held0[i] /\ pc[i] = "done")
        => result[i] = "ok" /\ ~is_locked[i]

\* C6: scoped cleanup: when a with-block is left, normally or by an error,
\* __exit__ has released the lock (no lock file of the instance, held = false)
\* before control or the error reaches the caller.
C6_ScopedCleanup ==
    \A i \in Inst :
        (pc[i] = "done" /\ op[i] = "exit") => ~is_locked[i] /\ disk # i

\* C10: handle/flag invariant: between operations the stored handle is
\* non-null if and only if is_locked is true.
C10_HandleFlag ==
    \A i \in Inst :
        pc[i] \in {"idle", "done"} => ((fd[i] # NoFd) <=> is_locked[i])

\* C1 and C6 do hold of instances that live in different processes
MutualExclusionAcrossProcesses == (proc["A"] # proc["B"]) => C1_MutualExclusion
ScopedCleanupAcrossProcesses == (proc["A"] # proc["B"]) => C6_ScopedCleanup

\* C3: round trip: acquire() then release() leaves the instance not held and,
\* when no other instance holds the lock, no lock file on disk; a following
\* acquire() by any instance then succeeds on its first creation attempt,
\* without sleeping.
RoundTripState ==
    \A i \in Inst :
        ( /\ pc[i] = "done" /\ op[i] = "release" /\ held0[i] /\ result[i] = "ok"
          /\ \A j \in Other(i) : ~is_locked[j] /\ pc[j] # "a_locked" )
        => ~is_locked[i] /\ disk = None
RoundTripStep ==
    \A i \in Inst :
        ( /\ pc[i] = "a_open" /\ attempts[i] = 0 /\ pc'[i] # "a_open"
          /\ folder = "ok"
          /\ \A j \in Inst : ~is_locked[j] /\ pc[j] # "a_locked" )
        => pc'[i] = "a_locked" /\ disk' = i /\ attempts'[i] = 1 /\ slept'[i] = 0
C3_RoundTrip == []RoundTripState /\ [][RoundTripStep]_vars

\* one instance's release has returned and the other has created the lock
\* file on the first attempt of the acquire that followed
C3_Witness ==
    \E i \in Inst : \E j \in Other(i) :
        /\ pc[i] = "done" /\ op[i] = "release" /\ held0[i] /\ result[i] = "ok"
        /\ ~is_locked[i]
        /\ pc[j] = "a_locked" /\ attempts[j] = 1 /\ slept[j] = 0 /\ disk = j

\* C7: __enter__ calls acquire() exactly when the instance is not held (held:
\* no creation attempt, no state change); __exit__ calls release() exactly
\* when it is held (not held: no state change, nothing raised).
ConditionalScopeStep ==
    \A i \in Inst :
        /\ (pc[i] = "idle" /\ op'[i] = "enter")
           => IF is_locked[i]
              THEN /\ pc'[i] = "done" /\ result'[i] = "ok" /\ attempts'[i] = 0
                   /\ UNCHANGED <<disk, open, fd, is_locked>>
              ELSE pc'[i] = "a_open"
        /\ (pc[i] = "idle" /\ op'[i] = "exit")
           => IF is_locked[i]
              THEN pc'[i] = "r_close"
              ELSE /\ pc'[i] = "done" /\ result'[i] = "ok"
                   /\ UNCHANGED <<disk, open, fd, is_locked>>
C7_ConditionalScope == [][ConditionalScopeStep]_vars

\* an __enter__ on a held instance and an __exit__ on an unheld one have ended
C7_Witness ==
    \E i \in Inst : \E j \in Other(i) :
        /\ pc[i] = "done" /\ op[i] = "enter" /\ held0[i] /\ is_locked[i]
        /\ pc[j] = "done" /\ op[j] = "exit" /\ ~held0[j] /\ ~is_locked[j]

\* C8: a creation attempt that fails with an error other than "file exists"
\* or "permission denied" makes acquire() raise that error at once: no sleep,
\* no further attempt, whatever is left of the timeout.
NoRetryStep ==
    \A i \in Inst :
        (pc[i] = "a_except" /\ errno[i] \notin Contention /\ pc'[i] # "a_except")
        => /\ pc'[i] = "done" /\ result'[i] = "OSError"
           /\ attempts'[i] = attempts[i] /\ slept'[i] = slept[i]
           /\ UNCHANGED <<disk, open, fd, is_locked>>
C8_NoRetry == [][NoRetryStep]_vars

\* acquire() has raised the OSError of its first attempt, timeout left
C8_Witness ==
    \E i \in Inst :
        /\ AcquireEnded(i) /\ result[i] = "OSError" /\ folder = "missing"
        /\ attempts[i] = 1 /\ slept[i] = 0 /\ elapsed[i] < timeout_sec[i]

\* C9: hand-off: once every other instance has released (its release has
\* deleted the lock file), the next creation attempt of a polling or fresh
\* acquire() succeeds, and the acquire() returns with the instance held.
HandOffStep ==
    \A b \in Inst :
        ( /\ pc[b] = "a_open" /\ pc'[b] # "a_open"
          /\ folder = "ok" /\ ~is_locked[b]
          /\ \A a \in Other(b) : Released(a) )
        => /\ pc'[b] = "a_locked" /\ disk' = b
           /\ fd'[b] \in Fds /\ fd'[b] \in open'[proc[b]]
HandOffState ==
    \A b \in Inst :
        (AcquireEnded(b) /\ result[b] = "ok")
        => is_locked[b] /\ fd[b] \in Fds /\ attempts[b] = slept[b] + 1
C9_HandOff == []HandOffState /\ [][HandOffStep]_vars

\* B polled while A held the lock, A's release has returned, B's acquire has
\* returned with B held
C9_Witness ==
    \E b \in Inst : \E a \in Other(b) :
        /\ AcquireEnded(b) /\ result[b] = "ok" /\ is_locked[b]
        /\ attempts[b] >= 2 /\ slept[b] >= 1 /\ disk = b
        /\ pc[a] = "done" /\ op[a] = "release" /\ held0[a] /\ result[a] = "ok"

\* C11: the lock file is the lock state: whenever no call is in progress on
\* any instance, the lock file exists if and only if exactly one instance has
\* is_locked = true; in particular no lock file exists while none is held.
C11_FileIsLockState ==
    (\A i \in Inst : pc[i] = "idle")
    => ((disk # None) <=> (Cardinality({i \in Inst : is_locked[i]}) = 1))

\* C11 does hold of instances that live in different processes
FileIsLockStateAcrossProcesses == (proc["A"] # proc["B"]) => C11_FileIsLockState

\* timeout rounded up to a multiple of retry_delay
RoundedUp(t, d) == ((t + d - 1) \div d) * d

\* C12: no busy-spin: within one acquire() every creation attempt but the
\* first follows exactly one completed sleep of retry_delay; the time slept
\* in total never exceeds the timeout rounded up to a multiple of retry_delay;
\* the elapsed time is measured from the start of the call (it covers all the
\* sleeps and no retry resets it).
NoBusySpinState ==
    \A i \in Inst :
        (pc[i] \in InAcquire \/ AcquireEnded(i))
        => /\ attempts[i] = slept[i] + (IF pc[i] = "a_open" THEN 0 ELSE 1)
           /\ slept[i] * retry_delay_sec[i]
                <= RoundedUp(timeout_sec[i], retry_delay_sec[i])
           /\ ElapsedAtLeast(i, slept[i] * retry_delay_sec[i])
NoBusySpinStep ==
    \A i \in Inst :
        /\ (pc[i] \in InAcquire /\ pc'[i] \in InAcquire \cup {"done"})
           => elapsed'[i] >= elapsed[i]
        /\ (pc[i] = "a_except" /\ pc'[i] = "a_sleep")
           => sleep_left'[i] = retry_delay_sec[i] /\ attempts'[i] = attempts[i]
        /\ (pc[i] = "a_sleep" /\ pc'[i] # "a_sleep")
           => /\ pc'[i] = "a_open" /\ sleep_left[i] = 0
              /\ slept'[i] = slept[i] + 1 /\ attempts'[i] = attempts[i]
        /\ (pc[i] \in InAcquire /\ attempts'[i] # attempts[i])
           => pc[i] = "a_open" /\ attempts'[i] = attempts[i] + 1
C12_NoBusySpin == []NoBusySpinState /\ [][NoBusySpinStep]_vars

\* a third creation attempt, after two sleeps that use up the whole timeout
C12_Witness ==
    \E i \in Inst :
        /\ pc[i] = "a_except" /\ attempts[i] = 3 /\ slept[i] = 2
        /\ slept[i] * retry_delay_sec[i]
             = RoundedUp(timeout_sec[i], retry_delay_sec[i])

\* C13: permission denial is handled as contention: after a creation attempt
\* that failed with "permission denied", exactly as after one that failed with
\* "file exists", acquire() sleeps and retries while elapsed < timeout and
\* raises the timeout error otherwise; an acquire() in a folder that stays
\* not writable ends with the timeout error, never with an I/O error.
PermissionDeniedStep ==
    \A i \in Inst :
        (pc[i] = "a_except" /\ errno[i] \in {"EACCES", "EEXIST"}
         /\ pc'[i] # "a_except")
        => IF elapsed[i] < timeout_sec[i]
           THEN pc'[i] = "a_sleep" /\ sleep_left'[i] = retry_delay_sec[i]
           ELSE pc'[i] = "done" /\ result'[i] = "FileLockException"
PermissionDeniedState ==
    \A i \in Inst :
        /\ (pc[i] = "a_except" /\ folder = "denied") => errno[i] = "EACCES"
        /\ (AcquireEnded(i) /\ folder = "denied")
           => /\ result[i] = "FileLockException"
              /\ attempts[i] = slept[i] + 1
              /\ ~is_locked[i] /\ disk = None
C13_PermissionDenied == []PermissionDeniedState /\ [][PermissionDeniedStep]_vars

\* an acquire() in a folder that is not writable has slept, tried again and
\* ended with the timeout error
C13_Witness ==
    \E i \in Inst :
        /\ AcquireEnded(i) /\ folder = "denied" /\ errno[i] = "EACCES"
        /\ result[i] = "FileLockException" /\ slept[i] >= 1 /\ attempts[i] >= 2

\* C14: release tolerates a damaged lock: release() on a held instance whose
\* handle has been closed or whose lock file has been removed raises nothing
\* and ends with held = false.
C14_ReleaseTolerant ==
    \A i \in Inst :
        ( /\ pc[i] = "done" /\ op[i] \in {"release", "exit"} /\ held0[i]
          /\ (fd[i] \notin open[proc[i]] \/ disk = None) )
        => result[i] = "ok" /\ ~is_locked[i]

\* C17: a failed acquire changes nothing: no step of an acquire() other than
\* a successful creation changes is_locked or the handle of the instance, the
\* lock file or the open descriptors; an acquire() that has created the file
\* returns normally; so an acquire() on an unheld instance that ends with the
\* timeout error or a filesystem error leaves the instance unheld, its handle
\* as it was, and the file another instance holds in place.
FailedAcquireStep ==
    \A i \in Inst :
        /\ (pc[i] \in InAcquire /\ pc'[i] # pc[i] /\ pc'[i] # "a_locked"
            /\ pc[i] # "a_locked")
           => UNCHANGED <<disk, open, fd, is_locked>>
        /\ (pc[i] = "idle" /\ pc'[i] = "a_open")
           => UNCHANGED <<disk, open, fd, is_locked>>
        /\ (pc[i] = "a_locked" /\ pc'[i] # pc[i])
           => pc'[i] = "done" /\ result'[i] = "ok"
FailedAcquireState ==
    \A i \in Inst :
        (AcquireEnded(i) /\ result[i] # "ok")
        => /\ result[i] \in {"FileLockException", "OSError"}
           /\ is_locked[i] = held0[i]
           /\ attempts[i] = slept[i] + 1
C17_FailedAcquire == []FailedAcquireState /\ [][FailedAcquireStep]_vars

\* an acquire() on a never-held instance has timed out; the other instance
\* still holds the lock, its file on disk and its handle open
C17_Witness ==
    \E i \in Inst : \E j \in Other(i) :
        /\ AcquireEnded(i) /\ result[i] = "FileLockException" /\ ~held0[i]
        /\ ~is_locked[i] /\ fd[i] = NoFd /\ attempts[i] >= 2
        /\ is_locked[j] /\ disk = j /\ fd[j] \in open[proc[j]]

\* C18: a release never destroys another holder's lock: no step of a
\* release() called on an instance that does not hold the lock removes the
\* lock file or closes a descriptor, also when both instances live in one
\* process and descriptor numbers are reused.
DoubleReleaseStep ==
    \A i \in Inst :
        (op[i] = "release" /\ ~held0[i] /\ pc[i] \in {"r_close", "r_unlink"}
         /\ pc'[i] # pc[i])
        => UNCHANGED <<disk, open>>
C18_DoubleRelease == [][DoubleReleaseStep]_vars

\* C18 does hold of instances that live in different processes
DoubleReleaseAcrossProcesses ==
    [][(proc["A"] # proc["B"]) => DoubleReleaseStep]_vars

\* C19: the lock is held for the whole guarded scope: when the __exit__ of an
\* inner with-block of an instance that held the lock has ended, control being
\* back in the outer block, the instance is held and its lock file exists.
C19_HeldInScope ==
    \A i \in Inst :
        (pc[i] = "done" /\ op[i] = "exit" /\ depth[i] >= 2 /\ held0[i])
        => is_locked[i] /\ disk = i

\* C20: held flags are mutually exclusive at every step of interleaved
\* release() and acquire() calls: never do two instances have is_locked = true.
C20_FlagsExclusive ==
    \A i, j \in Inst : is_locked[i] /\ is_locked[j] => i = j

\* ---- lock paths, as the specification writes them ------------------------
RECURSIVE Collapse(_)
\* a path with every run of separators reduced to one separator
Collapse(path) ==
    IF Len(path) <= 1 THEN path
    ELSE IF Char(path, 1) = Sep /\ Char(path, 2) = Sep THEN Collapse(Tail(path))
    ELSE Char(path, 1) \o Collapse(Tail(path))
\* two strings are the same path
SamePath(p, q) == Collapse(p) = Collapse(q)
\* <folder>/<name>.lock
SpecPath(a) == a.folder \o Sep \o a.filename \o DotLock
\* a name sanitized to be filesystem-safe: not empty, no separator in it
Sanitized(name) == name # "" /\ \A k \in 1..Len(name) : Char(name, k) # Sep
\* the text m has the path p in it
Carries(m, p) ==
    /\ m # None
    /\ \E k \in 1..Len(m) :
          k + Len(p) - 1 <= Len(m) /\ SubSeq(m, k, k + Len(p) - 1) = p

\* C15: construction is pure: building a FileLock creates and deletes no file
\* and opens no descriptor, whether or not another instance holds the lock,
\* does not fail, and leaves the instance with held = false, no handle, the
\* given timeout and retry delay, and (the name being filesystem-safe) the lock
\* path <folder>/<name>.lock; no later operation changes the path, the timeout
\* or the retry delay.
ConstructionStep ==
    \A i \in Inst :
        /\ (pc[i] = "unbuilt" /\ pc'[i] # "unbuilt")
           => /\ pc'[i] = "done" /\ op'[i] = "init" /\ result'[i] = "ok"
              /\ ~is_locked'[i] /\ fd'[i] = NoFd
              /\ UNCHANGED <<disk, open>>
              /\ \A j \in Other(i) :
                    /\ is_locked'[j] = is_locked[j] /\ fd'[j] = fd[j]
                    /\ lockfile'[j] = lockfile[j]
        /\ (pc[i] # "unbuilt")
           => /\ lockfile'[i] = lockfile[i]
              /\ timeout_sec'[i] = timeout_sec[i]
              /\ retry_delay_sec'[i] = retry_delay_sec[i]
ConstructionState ==
    \A i \in Inst :
        /\ (pc[i] = "done" /\ op[i] = "init")
           => /\ result[i] = "ok" /\ ~is_locked[i] /\ fd[i] = NoFd
              /\ Sanitized(args.filename)
                 => SamePath(lockfile[i], SpecPath(args))
        /\ (pc[i] # "unbuilt")
           => /\ timeout_sec[i] = args.timeout_sec
              /\ retry_delay_sec[i] = args.retry_delay_sec
              /\ lockfile[i] = LockPath(args)
C15_Construction == []ConstructionState /\ [][ConstructionStep]_vars

\* an instance has just been built, with a folder given with a trailing
\* separator, while the other instance holds the lock: the file is in place
C15_Witness ==
    \E i \in Inst : \E j \in Other(i) :
        /\ pc[i] = "done" /\ op[i] = "init" /\ lockfile[i] = LockPath(args)
        /\ pc[j] = "idle" /\ is_locked[j] /\ disk = j /\ fd[j] \in open[proc[j]]

\* the path of an instance built with a folder that ends with a separator
C15_WitnessPath ==
    \E i \in Inst :
        /\ pc[i] = "idle" /\ Sanitized(args.filename)
        /\ Char(args.folder, Len(args.folder)) = Sep
        /\ lockfile[i] # SpecPath(args)

\* C16: the timeout error identifies the lock: an acquire() that ends after a
\* creation attempt failed by contention, with elapsed >= timeout, raises
\* FileLockException, whose message has the lock path <folder>/<name>.lock of
\* the instance in it; an acquire() that ends after any other failure raises
\* the filesystem error, not FileLockException.
TimeoutErrorState ==
    \A i \in Inst :
        /\ (AcquireEnded(i) /\ errno[i] \in Contention)
           => /\ result[i] = "FileLockException"
              /\ elapsed[i] >= timeout_sec[i]
              /\ Carries(message[i], lockfile[i])
              /\ SamePath(lockfile[i], SpecPath(args))
        /\ (AcquireEnded(i) /\ errno[i] \notin Contention /\ errno[i] # None)
           => result[i] = "OSError" /\ message[i] = None
        /\ (result[i] = "FileLockException")
           => AcquireEnded(i) /\ errno[i] \in Contention
TimeoutErrorStep ==
    \A i \in Inst :
        (pc[i] = "a_except" /\ errno[i] \in Contention /\ TimedOut(i)
         /\ pc'[i] # pc[i])
        => /\ pc'[i] = "done" /\ result'[i] = "FileLockException"
           /\ Carries(message'[i], lockfile[i])
C16_TimeoutError == []TimeoutErrorState /\ [][TimeoutErrorStep]_vars

\* a timeout by "file exists" while the other instance holds the lock
C16_Witness ==
    \E i \in Inst : \E j \in Other(i) :
        /\ AcquireEnded(i) /\ result[i] = "FileLockException"
        /\ errno[i] = "EEXIST" /\ is_locked[j] /\ disk = j
        /\ message[i] = "Timeout occurred for lockfile '/t/j.lock'"

\* time never stalls: a sleep in progress always comes to its end, whatever
\* the other instance is doing
TimeNeverStalls ==
    \A i \in Inst :
        (pc[i] = "a_sleep" /\ sleep_left[i] > 0)
        => ENABLED (Tick /\ sleep_left'[i] = sleep_left[i] - 1)
====
